---- MODULE Spec2Model ----
(***************************************************************************)
(* A model of agl-video-utils: FrameExtractor (extractor.py) and           *)
(* VideoConverter (converter.py).                                          *)
(*                                                                         *)
(* Strings are sequences of chunks: "." is the dot character, every other  *)
(* chunk is a non-empty run of characters that holds no dot and no path    *)
(* separator.  A path is the chunk sequence of its file name, so           *)
(* "mov.mp4" is <<"mov", ".", "mp4">>.  A dict that ffprobe returns is    *)
(* a record over the keys it can hold, each entry <<>> when the key is     *)
(* absent and <<v>> when it is present with value v.                       *)
(***************************************************************************)
EXTENDS Integers, Sequences, FiniteSets, TLC

\* ------------------------------------------------------------------ bounds
MaxNameLen == 3
MaxFmtLen == 1
MaxFrames == 10
MaxStride == 3
MaxStreams == 1

Chunks == {".", "mp4", "mov"}

SeqsUpTo(S, n) == {<<>>} \cup UNION {[1..m -> S] : m \in 1..n}

\* File names handed to the constructors and to convert(output_path=...).
PathNames == SeqsUpTo(Chunks, MaxNameLen) \ {<<>>}

\* Values of convert's output_format argument.
FormatNames == SeqsUpTo(Chunks, MaxFmtLen)

\* Frame rates an opened capture reports (CAP_PROP_FPS).
FpsValues == {25, 30}

\* ------------------------------------------------------- pathlib.PurePath
\* PurePath.name: Path(".") has the empty name.
Name(p) == IF p = <<".">> THEN <<>> ELSE p

\* str.rfind("."), 1-based, 0 when there is no dot.
LastDot(s) ==
  LET dots == {i \in 1..Len(s) : s[i] = "."}
  IN  IF dots = {} THEN 0 ELSE CHOOSE i \in dots : \A j \in dots : j <= i

\* PurePath.suffix: from the last dot on, unless that dot opens or ends the name.
Suffix(p) ==
  LET n == Name(p)
      i == LastDot(n)
  IN  IF 1 < i /\ i < Len(n) THEN SubSeq(n, i, Len(n)) ELSE <<>>

\* PurePath.stem
Stem(p) ==
  LET n == Name(p)
      i == LastDot(n)
  IN  IF 1 < i /\ i < Len(n) THEN SubSeq(n, 1, i - 1) ELSE n

\* PurePath.with_suffix raises ValueError for the suffix "." and for a path
\* with an empty name.
WithSuffixRaises(p, suffix) == suffix = <<".">> \/ Name(p) = <<>>

\* PurePath.with_suffix: the old suffix (if any) is cut off, the new one appended.
WithSuffix(p, suffix) ==
  LET n == Name(p)
  IN  SubSeq(n, 1, Len(n) - Len(Suffix(p))) \o suffix

\* The suffix FrameExtractor.__init__ asserts.
Mp4Suffix == <<".", "mp4">>

\* An attribute or a result that was never assigned.
Unset == [unset |-> TRUE]

\* Python's None, as a returned value.
None == [kind |-> "None"]

VARIABLES
  \* ---- FrameExtractor and one extract_frames call
  epc,              \* "new", "constructed", "loop", "returned", "raised"
  eexc,             \* the exception that ended the constructor or the call
  ctor_arg,         \* the path handed to FrameExtractor.__init__
  video_path,       \* self.video_path
  frame_interval,   \* the call's argument
  srcFrames,        \* frames the capture delivers before read() reports False
  srcOpened,        \* video.isOpened()
  total_frames,     \* int(video.get(CAP_PROP_FRAME_COUNT)): the count the capture reports
  opens,            \* cv2.VideoCapture(...) constructions of this call
  releases,         \* video.release() calls of this call
  reads,            \* video.read() calls of this call
  fps,              \* video.get(CAP_PROP_FPS)
  dirMade,          \* frame_dir.mkdir(...) was done by this call
  frame_count, extracted_count,
  imwriteCalls,     \* frame indices i for which imwrite(frame_dir/"<i>.jpeg") ran
  written,          \* frame indices whose file this call wrote
  refused,          \* frame indices for which imwrite returned False
  pbar,             \* the tqdm bar: total, n, closed
  eret,             \* the call's return value, Unset before it returns
  \* ---- VideoConverter
  cpc,              \* "new", "ready", "returned" (a call has just ended), "raised_in_init"
  input_path,       \* self.input_path
  probe_raw,        \* self.probe_raw
  probe,            \* self.probe
  cret              \* how the last call ended: its name, result, exception, effects

evars == <<epc, eexc, ctor_arg, video_path, frame_interval, srcFrames, srcOpened,
           total_frames, opens, releases, reads, fps, dirMade, frame_count, extracted_count,
           imwriteCalls, written, refused, pbar, eret>>

cvars == <<cpc, input_path, probe_raw, probe, cret>>

vars == <<evars, cvars>>

\* ================================================================ extractor
NoBar == [total |-> 0, n |-> 0, closed |-> FALSE]

\* The state before a FrameExtractor is constructed.
ExtractorInit ==
  /\ epc = "new" /\ eexc = "none"
  /\ ctor_arg = <<>> /\ video_path = <<>>
  /\ frame_interval = 1
  /\ srcFrames = 0 /\ srcOpened = FALSE /\ total_frames = 0
  /\ opens = 0 /\ releases = 0 /\ reads = 0
  /\ fps = 0 /\ dirMade = FALSE
  /\ frame_count = 0 /\ extracted_count = 0
  /\ imwriteCalls = {} /\ written = {} /\ refused = {}
  /\ pbar = NoBar
  /\ eret = Unset

\* FrameExtractor.__init__'s assertion (line 8).
SuffixEndsWithMp4(p) == Len(p) > 0 /\ p[Len(p)] = "mp4"

SuffixAccepted(p) == Suffix(p) = Mp4Suffix

\* FrameExtractor.__init__(video_path)
FrameExtractorNew(p) ==
  /\ epc = "new"
  /\ ctor_arg' = p
  /\ IF SuffixAccepted(p)
       THEN /\ video_path' = p
            /\ epc' = "constructed"
            /\ eexc' = "none"
       ELSE /\ video_path' = video_path
            /\ epc' = "raised_in_init"
            /\ eexc' = "AssertionError"
  /\ UNCHANGED <<frame_interval, srcFrames, srcOpened, total_frames, opens,
                 releases, reads, fps, dirMade, frame_count, extracted_count, imwriteCalls, written,
                 refused, pbar, eret, cvars>>

\* frame_dir = Path(f"frames_{filename}_{fps}")
FrameDir == [stem |-> Stem(video_path), fps |-> fps]

\* extract_frames, lines 13-35: the capture is opened (canOpen: whether cv2 can
\* open the file, n: the frames read() will deliver, reported: the frame count
\* the capture reports, which need not be n, f: the rate it reports), the
\* directory is made (mkdirOk: whether mkdir succeeds) and the loop is entered.
\* cv2.VideoCapture never raises: a capture that could not be opened answers
\* isOpened() = False and 0 for every property.
ExtractFramesBegin(k, canOpen, n, reported, f, mkdirOk) ==
  /\ epc = "constructed"
  /\ frame_interval' = k
  /\ opens' = 1 /\ releases' = 0 /\ reads' = 0
  /\ srcOpened' = canOpen
  /\ srcFrames' = IF canOpen THEN n ELSE 0
  /\ total_frames' = IF canOpen THEN reported ELSE 0
  /\ fps' = IF canOpen THEN f ELSE 0
  /\ frame_count' = 0 /\ extracted_count' = 0
  /\ imwriteCalls' = {} /\ written' = {} /\ refused' = {}
  /\ eret' = Unset
  /\ IF k = 0
       THEN \* total_frames // frame_interval
            /\ epc' = "raised" /\ eexc' = "ZeroDivisionError"
            /\ dirMade' = FALSE /\ pbar' = NoBar
       ELSE IF ~mkdirOk
         THEN /\ epc' = "raised" /\ eexc' = "OSError"
              /\ dirMade' = FALSE /\ pbar' = NoBar
         ELSE /\ epc' = "loop" /\ eexc' = "none"
              /\ dirMade' = TRUE
              /\ pbar' = [total |-> total_frames' \div k, n |-> 0, closed |-> FALSE]
  /\ UNCHANGED <<ctor_arg, video_path, cvars>>

\* Whether the loop body saves the frame it has just read (line 40).
Selected(i, k) == i % k = 0

\* extracted_count after a pass of the loop (lines 40-44).
ExtractedEveryFrame(count, saved) == count + 1

ExtractedAfter(count, saved) == IF saved THEN count + 1 ELSE count

\* One pass of the loop in which read() delivers a frame.  w is what imwrite
\* does when it is called: "ok" (file written), "false" (it returns False and
\* writes nothing; the code ignores the return value) or "raise" (cv2.error).
ReadFrame(w) ==
  /\ epc = "loop"
  /\ srcOpened /\ frame_count < srcFrames
  /\ reads' = reads + 1
  /\ IF Selected(frame_count, frame_interval)
       THEN /\ imwriteCalls' = imwriteCalls \cup {frame_count}
            /\ IF w = "raise"
                 THEN /\ epc' = "raised" /\ eexc' = "cv2.error"
                      /\ UNCHANGED <<written, refused, extracted_count, pbar,
                                     frame_count>>
                 ELSE /\ written' = IF w = "ok" THEN written \cup {frame_count}
                                                ELSE written
                      /\ refused' = IF w = "false" THEN refused \cup {frame_count}
                                                   ELSE refused
                      /\ extracted_count' = ExtractedAfter(extracted_count, TRUE)
                      /\ pbar' = [pbar EXCEPT !.n = @ + 1]
                      /\ frame_count' = frame_count + 1
                      /\ UNCHANGED <<epc, eexc>>
       ELSE /\ w = "ok"
            /\ frame_count' = frame_count + 1
            /\ extracted_count' = ExtractedAfter(extracted_count, FALSE)
            /\ UNCHANGED <<imwriteCalls, written, refused, pbar, epc, eexc>>
  /\ UNCHANGED <<ctor_arg, video_path, frame_interval, srcFrames, srcOpened,
                 total_frames, opens, releases, fps, dirMade, eret, cvars>>

\* video.release() (line 49)
Release == releases + 1

\* The loop ends: isOpened() is False, or read() reports success = False (the
\* end of the stream and a decode failure look the same).  Then lines 49-50
\* and the implicit return None.
LoopEnd ==
  /\ epc = "loop"
  /\ ~srcOpened \/ frame_count >= srcFrames
  /\ reads' = IF srcOpened THEN reads + 1 ELSE reads
  /\ releases' = Release
  /\ pbar' = [pbar EXCEPT !.closed = TRUE]
  /\ eret' = None
  /\ epc' = "returned"
  /\ UNCHANGED <<eexc, ctor_arg, video_path, frame_interval, srcFrames, srcOpened,
                 total_frames, opens, fps, dirMade, frame_count, extracted_count, imwriteCalls,
                 written, refused, cvars>>

\* ------------------------------------------------------ extractor: claims
\* The frame indices below n that a stride of k selects.
Multiples(n, k) == {i \in 0..(n - 1) : i % k = 0}

\* A call of extract_frames has ended, by returning or by raising.
CallEnded == epc \in {"returned", "raised"}

\* C1: with a stride k >= 1 and a source of n frames, extract_frames writes
\* the image file <i>.jpeg for exactly the indices 0, k, 2k, ... below n:
\* while it runs no other index is written, and when it returns the files
\* of all of them are there.
C1_StrideSelection ==
  /\ (frame_interval >= 1 /\ epc \in {"loop", "returned", "raised"}) =>
       written \subseteq Multiples(srcFrames, frame_interval)
  /\ (frame_interval >= 1 /\ epc = "returned") =>
       written = Multiples(srcFrames, frame_interval)

\* C2: when a call of extract_frames has ended, on whichever path, the
\* capture it opened has been released exactly once.
C2_ReleasedOnEveryExit ==
  (CallEnded /\ frame_interval >= 1 /\ dirMade) => releases = 1

\* C7: a call whose capture could not be opened ends by raising an OpenError,
\* having read no frame and written no image.
C7_OpenFailureRaises ==
  (CallEnded /\ opens = 1 /\ ~srcOpened /\ frame_interval >= 1 /\ dirMade) =>
    /\ epc = "raised" /\ eexc = "OpenError"
    /\ reads = 0 /\ written = {}

\* The summary the specification describes.
ExtractionSummary ==
  [kind |-> "ExtractionSummary", framesRead |-> frame_count,
   framesExtracted |-> extracted_count, outputDirectory |-> FrameDir]

\* C8 as stated: a call with stride k >= 1 over n frames returns with
\* frame_count = n, extracted_count = |{i < n : i mod k = 0}| and hands both
\* back, with the output directory, as its summary.
C8_ReturnsSummary ==
  (epc = "returned" /\ frame_interval >= 1) =>
    /\ frame_count = srcFrames
    /\ extracted_count = Cardinality(Multiples(srcFrames, frame_interval))
    /\ eret = ExtractionSummary

\* C8 as amended: the two counters end at n and |{i < n : i mod k = 0}| (n for
\* stride 1, 4 for 10 frames and stride 3), and the call returns None.
C8_CountsAtReturn ==
  (epc = "returned" /\ frame_interval >= 1) =>
    /\ frame_count = srcFrames
    /\ extracted_count = Cardinality(Multiples(srcFrames, frame_interval))
    /\ (frame_interval = 1 => extracted_count = srcFrames)
    /\ ((frame_interval = 3 /\ srcFrames = 10) => extracted_count = 4)
    /\ eret = None

C8_Witness ==
  /\ epc = "returned" /\ frame_interval = 3 /\ srcFrames = 10
  /\ frame_count = 10 /\ extracted_count = 4

\* A name that ends with a dot and then mp4, with something before the dot.
EndsWithDotMp4(p) ==
  Len(p) >= 3 /\ p[Len(p) - 1] = "." /\ p[Len(p)] = "mp4"

\* C10: the constructor fails with its assertion exactly for the paths whose
\* extension is not .mp4; after that failure nothing is opened or read, and a
\* capture is only ever opened over a .mp4 path.
C10_SuffixPrecondition ==
  /\ epc # "new" =>
       ((epc = "raised_in_init" /\ eexc = "AssertionError") <=> ~EndsWithDotMp4(ctor_arg))
  /\ epc = "raised_in_init" => (opens = 0 /\ reads = 0 /\ imwriteCalls = {})
  /\ opens > 0 => EndsWithDotMp4(video_path)

C10_Witness ==
  epc = "raised_in_init" /\ ctor_arg = <<"mp4", ".", "mov">> /\ opens = 0

\* ================================================================ converter
\* TEST_VIDEO_PATH, the constructor's default input path.
TestVideoPath == <<"NINJVP_S001_S001_T001", ".", "MOV">>

\* ---- what ffmpeg.probe can answer
\* A dict is a record over all the keys it can hold; a key's entry is <<>>
\* when the key is absent and <<v>> when it holds v.  None is the string "None".
Absent == <<>>

Has(entry) == entry # Absent

\* The container names validate_file accepts.
AcceptedFormats == {"mov,mp4,m4a,3gp,3g2,mj2", "matroska,webm", "avi",
                    "quicktime, mov", "rawvideo"}

\* An entry for a key that can hold the values V.
Entries(V) == {Absent} \cup {<<v>> : v \in V}

\* format.tags
TagsDicts == [creation_time : Entries({"2023-05-01T10:00:00Z", ""})]

\* format
FormatDicts ==
  [filename : Entries({"clip.mp4"}),
   duration : Entries({"12.5"}),
   size : Entries({"1048576"}),
   bit_rate : Entries({"800000"}),
   format_name : Entries({"mov,mp4,m4a,3gp,3g2,mj2", "flv"}),
   tags : Entries(TagsDicts)]

\* One record of streams
StreamDicts ==
  [codec_name : Entries({"h264"}),
   codec_type : Entries({"video", "audio"}),
   duration : Entries({"12.5"}),
   bit_rate : Entries({"800000"}),
   r_frame_rate : Entries({"25/1"}),
   color_space : Entries({"bt709"}),
   color_range : Entries({"tv"}),
   width : Entries({"1920"}),
   height : Entries({"1080"})]

StreamSeqs == SeqsUpTo(StreamDicts, MaxStreams)

\* The raw results: any of format and streams present, any sub-key missing.
RawProbes == [format : Entries(FormatDicts), streams : Entries(StreamSeqs)]

\* Two results of the usual shape: a tagged file with one video stream, and an
\* untagged one with no stream.
FullProbe ==
  [format |-> <<[filename |-> <<"clip.mp4">>, duration |-> <<"12.5">>,
                 size |-> <<"1048576">>, bit_rate |-> <<"800000">>,
                 format_name |-> <<"mov,mp4,m4a,3gp,3g2,mj2">>,
                 tags |-> <<[creation_time |-> <<"2023-05-01T10:00:00Z">>]>>]>>,
   streams |-> <<<<[codec_name |-> <<"h264">>, codec_type |-> <<"video">>,
                    duration |-> <<"12.5">>, bit_rate |-> <<"800000">>,
                    r_frame_rate |-> <<"25/1">>, color_space |-> <<"bt709">>,
                    color_range |-> <<"tv">>, width |-> <<"1920">>,
                    height |-> <<"1080">>]>>>>]

BareProbe ==
  [format |-> <<[filename |-> <<"clip.mp4">>, duration |-> <<"12.5">>,
                 size |-> <<"1048576">>, bit_rate |-> <<"800000">>,
                 format_name |-> <<"flv">>,
                 tags |-> <<[creation_time |-> Absent]>>]>>,
   streams |-> <<<<>>>>]

SampleProbes == {FullProbe, BareProbe}

\* ---- get_simplified_probe
\* d[k] if k in d else None
GetOrNone(entry) == IF Has(entry) THEN entry[1] ELSE "None"

\* The key whose lookup raises KeyError in get_simplified_probe, in the order
\* the lookups are made; "none" when all of them succeed.
SimplifyKeyError(raw) ==
  IF ~Has(raw.format) THEN "format"
  ELSE IF ~Has(raw.format[1].filename) THEN "filename"
  ELSE IF ~Has(raw.format[1].duration) THEN "duration"
  ELSE IF ~Has(raw.format[1].size) THEN "size"
  ELSE IF ~Has(raw.format[1].bit_rate) THEN "bit_rate"
  ELSE IF ~Has(raw.format[1].tags) THEN "tags"
  ELSE IF ~Has(raw.streams) THEN "streams"
  ELSE "none"

\* new_stream: seven keys always (None for a key not probed), width and
\* height only when probed.
SimplifyStream(st) ==
  [codec_name |-> GetOrNone(st.codec_name),
   codec_type |-> GetOrNone(st.codec_type),
   duration |-> GetOrNone(st.duration),
   bit_rate |-> GetOrNone(st.bit_rate),
   frame_rate |-> GetOrNone(st.r_frame_rate),
   color_space |-> GetOrNone(st.color_space),
   color_range |-> GetOrNone(st.color_range),
   width |-> st.width,
   height |-> st.height]

\* The dict get_simplified_probe returns when no lookup raises; its six keys
\* are the record's fields.
Simplified(raw) ==
  [filename |-> raw.format[1].filename[1],
   duration |-> raw.format[1].duration[1],
   size |-> raw.format[1].size[1],
   bit_rate |-> raw.format[1].bit_rate[1],
   creation_time |-> GetOrNone(raw.format[1].tags[1].creation_time),
   streams |-> [i \in 1..Len(raw.streams[1]) |-> SimplifyStream(raw.streams[1][i])]]

\* ---- what a call hands back
Str(x) == [kind |-> "str", str |-> x]

Bool(x) == [kind |-> "bool", bool |-> x]

Dict(x) == [kind |-> "dict", dict |-> x]

Lines(x) == [kind |-> "printed", lines |-> x]

\* A call's record: name, returned value, exception, and for convert the
\* resolved output path, the ffmpeg.run calls and whether the output file was touched.
Call(op, value, exc) == [op |-> op, value |-> value, exc |-> exc]

NoCall == Call("none", None, "none")

ConverterInit ==
  /\ cpc = "new"
  /\ input_path = <<>>
  /\ probe_raw = Unset /\ probe = Unset
  /\ cret = NoCall

\* VideoConverter.__init__(input_path): probeOk says whether ffmpeg.probe
\* succeeds, raw is what it answers.  get_metadata re-raises ffmpeg.Error;
\* get_simplified_probe's KeyError leaves self.probe unassigned.
VideoConverterNew(p, probeOk, raw) ==
  /\ cpc = "new"
  /\ input_path' = p
  /\ IF ~probeOk
       THEN /\ cpc' = "raised_in_init"
            /\ cret' = Call("__init__", None, "ffmpeg.Error")
            /\ UNCHANGED <<probe_raw, probe>>
       ELSE /\ probe_raw' = raw
            /\ IF SimplifyKeyError(raw) # "none"
                 THEN /\ cpc' = "raised_in_init"
                      /\ cret' = Call("__init__", Str(SimplifyKeyError(raw)), "KeyError")
                      /\ UNCHANGED probe
                 ELSE /\ cpc' = "returned"
                      /\ cret' = Call("__init__", None, "none")
                      /\ probe' = Simplified(raw)
  /\ UNCHANGED evars

\* What self.probe_raw holds after a later get_metadata call fetched
\* `fetched`: the method returns the result and assigns nothing.
StoredRefreshed(stored, fetched) == fetched

StoredAfterFetch(stored, fetched) == stored

\* get_metadata() called on the instance again.
GetMetadata(probeOk, raw) ==
  /\ cpc = "ready"
  /\ cret' = IF probeOk THEN Call("get_metadata", Dict(raw), "none")
                        ELSE Call("get_metadata", None, "ffmpeg.Error")
  /\ probe_raw' = IF probeOk THEN StoredAfterFetch(probe_raw, raw) ELSE probe_raw
  /\ cpc' = "returned"
  /\ UNCHANGED <<input_path, probe, evars>>

\* get_simplified_probe() called on the instance again: a fresh dict is returned.
GetSimplifiedProbe ==
  /\ cpc = "ready"
  /\ cret' = Call("get_simplified_probe", Dict(Simplified(probe_raw)), "none")
  /\ cpc' = "returned"
  /\ UNCHANGED <<input_path, probe_raw, probe, evars>>

\* Python's truth test of a value of the simplified dict (line 76): None and
\* the empty string are falsy.
Falsy(v) == v \in {"None", ""}

\* print_metadata(): the values printed, up to the lookup that raises.
PrintMetadata ==
  /\ cpc = "ready"
  /\ cret' =
       IF Len(probe.streams) = 0
         THEN Call("print_metadata", Lines(<<probe.duration>>), "IndexError")
       ELSE IF ~Has(probe.streams[1].width) \/ ~Has(probe.streams[1].height)
         THEN Call("print_metadata",
                   Lines(<<probe.duration, probe.streams[1].frame_rate>>), "KeyError")
       ELSE Call("print_metadata",
                 Lines(<<probe.duration, probe.streams[1].frame_rate,
                         probe.streams[1].width[1], probe.streams[1].height[1],
                         IF Falsy(probe.creation_time) THEN "Unknown"
                                                       ELSE probe.creation_time>>),
                 "none")
  /\ cpc' = "returned"
  /\ UNCHANGED <<input_path, probe_raw, probe, evars>>

\* validate_file(): it reads self.probe['format']['format_name'], and
\* self.probe is the simplified dict.
ValidateFile ==
  /\ cpc = "ready"
  /\ cret' =
       IF "format" \notin DOMAIN probe
         THEN Call("validate_file", Str("format"), "KeyError")
       ELSE IF "format_name" \notin DOMAIN probe["format"]
         THEN Call("validate_file", Str("format_name"), "KeyError")
       ELSE IF probe["format"]["format_name"] \notin AcceptedFormats
         THEN Call("validate_file", Bool(FALSE), "none")
       ELSE IF \A i \in 1..Len(probe.streams) : probe.streams[i].codec_type # "video"
         THEN Call("validate_file", Bool(FALSE), "none")
       ELSE Call("validate_file", Bool(TRUE), "none")
  /\ cpc' = "returned"
  /\ UNCHANGED <<input_path, probe_raw, probe, evars>>

\* The test of line 115.
SameFormatByName(inp, out) == inp = out

SameFormat(inp, out) == Suffix(inp) = Suffix(out)

\* The exception convert ends with after ffmpeg.run ended as `ran` (lines
\* 123-125).  stderr is the stderr attribute of the ffmpeg.Error raised: line
\* 122 calls ffmpeg.run without capture_stderr, so ffmpeg-python raises the
\* Error with stderr = None, and e.stderr.decode() (line 124) raises
\* AttributeError before anything is printed and before `raise e`; an Error
\* that carries bytes is printed and re-raised.
RunError(ran, stderr) ==
  IF ran = "ok" THEN "none"
  ELSE IF stderr = "None" THEN "AttributeError"
  ELSE "ffmpeg.Error"

\* A convert call's record: its arguments, the output path it resolved, the
\* ffmpeg.run calls it made and how the last ended, whether the output file
\* was created or modified, and what it printed.
Converted(fmt, override, out, runs, ran, stderr, touched, printed, exc) ==
  [op |-> "convert", value |-> None, exc |-> exc, output_format |-> fmt,
   override |-> override, output_path |-> out, run_calls |-> runs, ran |-> ran,
   stderr |-> stderr, touched |-> touched, printed |-> printed]

\* convert(output_format, output_path): override is <<>> for output_path=None
\* and <<path>> for a given path.
\* ran is how ffmpeg.run ends when it is called: "ok", "error" (ffmpeg.Error,
\* no output file) or "error, partial output" (ffmpeg.Error, a file left
\* behind); stderr is that Error's stderr attribute, "None" or "bytes".
Convert(fmt, override, ran, stderr) ==
  /\ cpc = "ready"
  /\ ran = "ok" => stderr = "None"
  /\ LET derive == override = <<>>
         bad == derive /\ WithSuffixRaises(input_path, <<".">> \o fmt)
         out == IF derive THEN WithSuffix(input_path, <<".">> \o fmt) ELSE override[1]
     IN  cret' =
           IF bad
             THEN Converted(fmt, override, <<>>, 0, "not run", "None", FALSE,
                            "nothing", "ValueError")
           ELSE IF SameFormat(input_path, out)
             THEN Converted(fmt, override, out, 0, "not run", "None", FALSE,
                            "cancelled", "none")
           ELSE IF ran = "ok"
             THEN Converted(fmt, override, out, 1, ran, stderr, TRUE, "success",
                            RunError(ran, stderr))
           ELSE Converted(fmt, override, out, 1, ran, stderr,
                          ran = "error, partial output",
                          IF stderr = "None" THEN "nothing" ELSE "stderr",
                          RunError(ran, stderr))
  /\ cpc' = "returned"
  /\ UNCHANGED <<input_path, probe_raw, probe, evars>>

\* check_result_integrity(output_path): probeOk says whether probing it succeeds.
CheckResultIntegrity(out, probeOk) ==
  /\ cpc = "ready"
  /\ cret' = Call("check_result_integrity", Bool(probeOk), "none")
  /\ cpc' = "returned"
  /\ UNCHANGED <<input_path, probe_raw, probe, evars>>

\* The caller goes on after a call that returned or raised; the instance stays.
CallerContinues ==
  /\ cpc = "returned"
  /\ cpc' = "ready"
  /\ cret' = NoCall
  /\ UNCHANGED <<input_path, probe_raw, probe, evars>>

\* ------------------------------------------------------ converter: claims
\* The output path a convert call works on, from the arguments it was given.
ResolvedOutput ==
  IF cret.override # <<>> THEN cret.override[1]
  ELSE WithSuffix(input_path, <<".">> \o cret.output_format)

\* A convert call has ended after resolving its output path.
ConvertResolved == cret.op = "convert" /\ cret.exc # "ValueError"

\* C3: a convert call whose input extension equals the extension of its
\* resolved output path (the override, else the input path with its extension
\* replaced by the format) never runs ffmpeg, leaves the output file alone
\* and ends, without raising, with the cancellation message.
C3_SameFormatNoTranscode ==
  ConvertResolved =>
    /\ cret.output_path = ResolvedOutput
    /\ Suffix(input_path) = Suffix(ResolvedOutput) =>
         /\ cret.run_calls = 0 /\ cret.ran = "not run"
         /\ ~cret.touched
         /\ cret.printed = "cancelled" /\ cret.exc = "none"

C3_Witness ==
  /\ cret.op = "convert" /\ input_path = <<"mov", ".", "mp4">>
  /\ cret.override = <<<<"mp4", ".", "mp4">>>>
  /\ cret.printed = "cancelled" /\ cret.run_calls = 0

\* C6: a convert call whose extensions differ runs ffmpeg exactly once; when
\* that run fails the call raises ffmpeg.Error to its caller after printing
\* the diagnostic text, does not run it again and does not print the success
\* message.
C6_TranscodeOnceNoRetry ==
  (ConvertResolved /\ Suffix(input_path) # Suffix(cret.output_path)) =>
    /\ cret.run_calls = 1
    /\ cret.ran = "ok" => (cret.exc = "none" /\ cret.printed = "success")
    /\ cret.ran # "ok" => (cret.exc = "ffmpeg.Error" /\ cret.printed = "stderr")

\* A step of a constructed instance leaves both stored results as they were.
StoredProbesKept ==
  cpc \in {"ready", "returned"} => (probe_raw' = probe_raw /\ probe' = probe)

\* C9: once the constructor has returned, no step changes self.probe_raw or
\* self.probe, whichever method is called and however often.
C9_StoredProbesFrozen == [][StoredProbesKept]_vars

C9_Witness ==
  /\ cpc = "returned" /\ cret.op = "get_metadata" /\ cret.exc = "none"
  /\ cret.value = Dict(BareProbe) /\ probe_raw = FullProbe
  /\ probe = Simplified(FullProbe)

\* What validate_file is documented to answer for a probed file.
ExpectedValid(raw) ==
  /\ Has(raw.format[1].format_name)
  /\ raw.format[1].format_name[1] \in AcceptedFormats
  /\ \E i \in 1..Len(raw.streams[1]) : raw.streams[1][i].codec_type = <<"video">>

\* C4: validate_file returns, without raising, whether the container name is
\* an accepted one and some stream is a video stream.
C4_ValidateDecides ==
  cret.op = "validate_file" =>
    /\ cret.exc = "none"
    /\ cret.value = Bool(ExpectedValid(probe_raw))

\* C5: get_simplified_probe succeeds on every raw result that has the format
\* and streams keys (here: with the four scalar fields of format present as
\* well), whichever of the other keys are missing, and fails only when
\* format or streams is missing.
C5_SimplifyTotal ==
  (cret.op = "__init__" /\ cret.exc # "ffmpeg.Error") =>
    IF Has(probe_raw.format) /\ Has(probe_raw.streams)
      THEN (/\ Has(probe_raw.format[1].filename) /\ Has(probe_raw.format[1].duration)
            /\ Has(probe_raw.format[1].size) /\ Has(probe_raw.format[1].bit_rate))
             => (cret.exc = "none" /\ cpc = "returned")
      ELSE cret.exc = "KeyError"

Init == ExtractorInit /\ ConverterInit

ConvertNext ==
  \/ \E p \in PathNames, probeOk \in BOOLEAN, raw \in SampleProbes :
       VideoConverterNew(p, probeOk, raw)
  \/ \E probeOk \in BOOLEAN, raw \in SampleProbes : GetMetadata(probeOk, raw)
  \/ GetSimplifiedProbe
  \/ PrintMetadata
  \/ ValidateFile
  \/ /\ cpc = "ready"
     /\ \E fmt \in FormatNames, override \in {<<>>} \cup {<<o>> : o \in PathNames},
           ran \in {"ok", "error", "error, partial output"},
           stderr \in {"None", "bytes"} :
          Convert(fmt, override, ran, stderr)
  \/ \E out \in PathNames, probeOk \in BOOLEAN : CheckResultIntegrity(out, probeOk)
  \/ CallerContinues

ConvertSpec == Init /\ [][ConvertNext]_vars

ProbeNext ==
  \/ /\ cpc = "new"
     /\ \E probeOk \in BOOLEAN, raw \in RawProbes :
          VideoConverterNew(TestVideoPath, probeOk, raw)
  \/ GetSimplifiedProbe
  \/ PrintMetadata
  \/ ValidateFile
  \/ CallerContinues

ProbeSpec == Init /\ [][ProbeNext]_vars

ExtractNext ==
  \/ \E p \in PathNames : FrameExtractorNew(p)
  \/ /\ epc = "constructed"
     /\ \E k \in 0..MaxStride, canOpen \in BOOLEAN, n \in 0..MaxFrames,
           reported \in 0..MaxFrames, f \in FpsValues, mkdirOk \in BOOLEAN :
          ExtractFramesBegin(k, canOpen, n, reported, f, mkdirOk)
  \/ \E w \in {"ok", "false", "raise"} : ReadFrame(w)
  \/ LoopEnd

ExtractSpec == Init /\ [][ExtractNext]_vars

====
